---- MODULE Spec2Model ----
(***************************************************************************)
(* Bulk collection of SonarQube quality metrics and project classification *)
(* (src/s/prt.py, src/s/many.py).                                          *)
(*                                                                         *)
(* One run of a collection loop is modelled: the project listing, the      *)
(* ThreadPoolExecutor with its FIFO work queue and max_workers threads,    *)
(* the per-project task (get_project_quality_metrics_safe or               *)
(* classify_single_project), the main thread's loop over the futures with  *)
(* future.result(timeout=60), and the executor's shutdown(wait=True) at    *)
(* the end of the with block.  Time is counted in seconds and advances in  *)
(* steps of half a timeout.                                                *)
(*                                                                         *)
(* Two more specifications share the state: SpecMain runs main() of        *)
(* src/s/many.py step by step, each call of the service being one step,    *)
(* and SpecCalls calls one method of the service by itself.                *)
(*                                                                         *)
(* src/s/prt.py lines 521-571 carry one more column of indentation than    *)
(* line 520; they are read as the continuation of the try block of         *)
(* classify_single_project, which is what the except clause at line 564    *)
(* closes.                                                                 *)
(*                                                                         *)
(* Strings the code parses (measure values) are sequences of one-character *)
(* strings.  None is the one-element sequence <<"None">>, which is no      *)
(* sequence of characters.  A date string is a record of its date part and *)
(* its UTC-offset suffix; days are counted relative to the instant         *)
(* classify_projects is invoked (0 = now, -5 = five days ago).             *)
(***************************************************************************)
EXTENDS Integers, Sequences, FiniteSets, TLC

\* ---------------------------------------------------------------- bounds
\* Largest number of projects in a listing of Spec.
MaxProjects == 3
\* Number of projects beyond the pool size in a listing of SpecPool.
PoolExtra == 1
\* Longest finite task duration, in ticks of TickSeconds.
MaxRunTicks == 3

\* ----------------------------------------------------- program constants
max_workers == 10
timeout == 60
recency_days == 30

TickSeconds == timeout \div 2

\* ------------------------------------------------------------ data model
None == <<"None">>

Digits == {"0", "1", "2", "3", "4", "5", "6", "7", "8", "9"}

\* Python truthiness of an Optional[str].
Truthy(s) == s # None /\ s # <<>>

\* str.isdigit(): non-empty and every character a digit.
isdigit(s) == Len(s) > 0 /\ \A k \in 1..Len(s) : s[k] \in Digits

DigitValue(c) ==
    CASE c = "0" -> 0 [] c = "1" -> 1 [] c = "2" -> 2 [] c = "3" -> 3
      [] c = "4" -> 4 [] c = "5" -> 5 [] c = "6" -> 6 [] c = "7" -> 7
      [] c = "8" -> 8 [] c = "9" -> 9

\* int(s) for a string of digits.
RECURSIVE int(_)
int(s) ==
    IF Len(s) = 0 THEN 0
    ELSE 10 * int(SubSeq(s, 1, Len(s) - 1)) + DigitValue(s[Len(s)])

\* float(s) succeeds on digits with at most one decimal point and at least
\* one digit (the strings of this model use no sign, exponent or blank).
IsFloat(s) ==
    /\ \A k \in 1..Len(s) : s[k] \in Digits \cup {"."}
    /\ Cardinality({k \in 1..Len(s) : s[k] = "."}) <= 1
    /\ \E k \in 1..Len(s) : s[k] \in Digits

\* The metric keys get_project_measures asks for.
MetricKeys ==
    {"coverage", "duplicated_lines_density", "sqale_rating",
     "reliability_rating", "security_rating", "vulnerabilities", "bugs",
     "code_smells", "sqale_index", "ncloc"}

\* Mutant: a metric the measures do not hold reads as '0'.
RECURSIVE MeasureGet_zero(_, _)
MeasureGet_zero(measures, key) ==
    IF Len(measures) = 0 THEN <<"0">>
    ELSE IF measures[Len(measures)].metric = key
         THEN measures[Len(measures)].value
         ELSE MeasureGet_zero(SubSeq(measures, 1, Len(measures) - 1), key)

\* measure_map = {m.metric: m.value for m in measures}; measure_map.get(key):
\* the value of the last measure of that metric, None when there is none.
RECURSIVE MeasureGet(_, _)
MeasureGet(measures, key) ==
    IF Len(measures) = 0 THEN None
    ELSE IF measures[Len(measures)].metric = key
         THEN measures[Len(measures)].value
         ELSE MeasureGet(SubSeq(measures, 1, Len(measures) - 1), key)

\* ---------------------------------------------------- the service's state
\* self._config: the SonarQubeConfig _load_config read from the configuration
\* file, None when there is no file.
VARIABLES config

SonarQubeConfig(url) ==
    [kind |-> "SonarQubeConfig", url |-> url, token |-> <<"t", "o", "k">>,
     organization |-> <<>>]

Configured == SonarQubeConfig(<<"h", ":", "/", "/", "s">>)
\* The same server, configured with a URL that ends with '/'.
ConfiguredSlash == SonarQubeConfig(<<"h", ":", "/", "/", "s", "/">>)
NoConfig == [kind |-> "None", url |-> <<>>, token |-> <<>>, organization |-> <<>>]

\* str.rstrip('/')
RECURSIVE rstrip(_)
rstrip(s) ==
    IF Len(s) > 0 /\ s[Len(s)] = "/" THEN rstrip(SubSeq(s, 1, Len(s) - 1)) ELSE s

\* Mutant: the cleaned URL is used for the request, not stored.
get_auth_headers_local(c) == c

\* _get_auth_headers, which every remote call makes while it builds its
\* request: self._config.url = self._config.url.rstrip('/').  No call is
\* made without a configuration.
get_auth_headers(c) ==
    IF c.kind = "None" THEN c ELSE [c EXCEPT !.url = rstrip(@)]

\* ----------------------------------------------------------- remote API
\* What the server answers to GET api/measures/component for one project:
\*   ok            2xx, body with component.measures
\*   http_error    a non-2xx status
\*   network_error requests raises a RequestException
\*   malformed     2xx, but a measure of the body has no 'metric' key
\* get_project_measures returns the list of measures, [] without a
\* configuration, on a non-2xx status or on a RequestException; any other
\* exception leaves the method.
MeasuresRaised == [kind |-> "raised", measures |-> <<>>]

\* Mutant: a non-2xx status raises (raise_for_status) instead of giving [].
get_project_measures_raise(resp) ==
    CASE resp.kind = "ok" -> [kind |-> "list", measures |-> resp.measures]
      [] resp.kind = "http_error" -> MeasuresRaised
      [] resp.kind = "network_error" -> [kind |-> "list", measures |-> <<>>]
      [] resp.kind = "malformed" -> MeasuresRaised

get_project_measures(resp) ==
    IF config.kind = "None" THEN [kind |-> "list", measures |-> <<>>]
    ELSE CASE resp.kind = "ok" -> [kind |-> "list", measures |-> resp.measures]
           [] resp.kind = "http_error" -> [kind |-> "list", measures |-> <<>>]
           [] resp.kind = "network_error" -> [kind |-> "list", measures |-> <<>>]
           [] resp.kind = "malformed" -> MeasuresRaised

\* What the server answers to GET api/qualitygates/project_status:
\*   ok (with the gate's status), no_status (no projectStatus in the body),
\*   http_error, network_error, malformed (projectStatus has no 'status').
\* get_project_quality_gate returns the gate, None, or raises.
NoGate == [kind |-> "None", status |-> "NONE"]
GateRaised == [kind |-> "raised", status |-> "NONE"]

\* Mutant: a failed call is reported as a quality gate in error.
get_project_quality_gate_error(resp) ==
    IF config.kind = "None" THEN NoGate
    ELSE CASE resp.kind = "ok" -> [kind |-> "QualityGate", status |-> resp.status]
           [] resp.kind = "no_status" -> NoGate
           [] resp.kind = "http_error" -> [kind |-> "QualityGate", status |-> "ERROR"]
           [] resp.kind = "network_error" -> [kind |-> "QualityGate", status |-> "ERROR"]
           [] resp.kind = "malformed" -> GateRaised

\* get_project_quality_gate: the gate of a 2xx answer that carries a status,
\* None on any other answer, KeyError on a body without projectStatus.
get_project_quality_gate(resp) ==
    IF config.kind = "None" THEN NoGate
    ELSE CASE resp.kind = "ok" -> [kind |-> "QualityGate", status |-> resp.status]
           [] resp.kind = "no_status" -> NoGate
           [] resp.kind = "http_error" -> NoGate
           [] resp.kind = "network_error" -> NoGate
           [] resp.kind = "malformed" -> GateRaised

\* ---------------------------------------------- per-project metric fetch
NoneResult == [kind |-> "None"]

QualityMetrics(project, quality_gate, measures) ==
    [kind |-> "QualityMetrics",
     project_key |-> project.key,
     project_name |-> project.name,
     quality_gate_status |->
         IF quality_gate.kind = "QualityGate" THEN quality_gate.status ELSE "NONE",
     coverage |-> MeasureGet(measures, "coverage"),
     duplicated_lines_density |-> MeasureGet(measures, "duplicated_lines_density"),
     maintainability_rating |-> MeasureGet(measures, "sqale_rating"),
     reliability_rating |-> MeasureGet(measures, "reliability_rating"),
     security_rating |-> MeasureGet(measures, "security_rating"),
     vulnerabilities |-> MeasureGet(measures, "vulnerabilities"),
     bugs |-> MeasureGet(measures, "bugs"),
     code_smells |-> MeasureGet(measures, "code_smells"),
     technical_debt |-> MeasureGet(measures, "sqale_index"),
     lines_of_code |-> MeasureGet(measures, "ncloc"),
     last_analysis_date |-> project.last_analysis_date]

\* get_project_quality_metrics_safe: the two calls, then the record; any
\* exception is printed and None is returned.
get_project_quality_metrics_safe(project, gateResp, measResp) ==
    LET quality_gate == get_project_quality_gate(gateResp)
        measures == get_project_measures(measResp)
    IN  IF quality_gate.kind = "raised" \/ measures.kind = "raised"
        THEN NoneResult
        ELSE QualityMetrics(project, quality_gate, measures.measures)

\* ------------------------------------------------------- the classifier
\* Optional[int] fields of ProjectClassificationStatus.
NoInt == [some |-> FALSE, v |-> 0]
SomeInt(n) == [some |-> TRUE, v |-> n]

NoDate == [kind |-> "None", body |-> "", day |-> 0, suffix |-> ""]
DateStr(body, day, suffix) ==
    [kind |-> "str", body |-> body, day |-> day, suffix |-> suffix]

\* last_analysis_date.replace('Z', '+00:00').replace('+0000', '+00:00')
ReplaceOffset(d) ==
    LET z == IF d.suffix = "Z" THEN [d EXCEPT !.suffix = "+00:00"] ELSE d
    IN  IF z.suffix = "+0000" THEN [z EXCEPT !.suffix = "+00:00"] ELSE z

\* datetime.fromisoformat: a naive datetime for a date without offset, an
\* aware one for an offset written with a colon, ValueError otherwise.
fromisoformat(d) ==
    CASE d.body # "iso" -> [kind |-> "ValueError", day |-> 0]
      [] d.body = "iso" /\ d.suffix = "" -> [kind |-> "naive", day |-> d.day]
      [] d.body = "iso" /\ d.suffix = "+00:00" -> [kind |-> "aware", day |-> d.day]
      [] OTHER -> [kind |-> "ValueError", day |-> 0]

\* thirty_days_ago = datetime.now() - timedelta(days=30): a naive datetime.
thirty_days_ago == [kind |-> "naive", day |-> 0 - recency_days]

\* Mutant: the comparison is written the wrong way round.
DateGreater_flipped(a, b) ==
    IF a.kind # b.kind THEN "TypeError"
    ELSE IF a.day < b.day THEN "True" ELSE "False"

\* analysis_date > thirty_days_ago: ordering a naive and an aware datetime
\* raises TypeError.
DateGreater(a, b) ==
    IF a.kind # b.kind THEN "TypeError"
    ELSE IF a.day > b.day THEN "True" ELSE "False"

\* Mutant: the inner try has no except clause, the ValueError leaves it.
RecentAnalysis_uncaught(last_analysis_date) ==
    IF last_analysis_date.kind = "None" THEN "False"
    ELSE LET analysis_date == fromisoformat(ReplaceOffset(last_analysis_date))
         IN  IF analysis_date.kind = "ValueError" THEN "TypeError"
             ELSE DateGreater(analysis_date, thirty_days_ago)

\* The "has_recent_analysis" block: "True", "False" or "TypeError" (the inner
\* try catches ValueError only).
RecentAnalysis(last_analysis_date) ==
    IF last_analysis_date.kind = "None" THEN "False"
    ELSE LET analysis_date == fromisoformat(ReplaceOffset(last_analysis_date))
         IN  IF analysis_date.kind = "ValueError" THEN "False"
             ELSE DateGreater(analysis_date, thirty_days_ago)

\* int(x) if x and x.isdigit() else 0
\* Mutant: the isdigit test is forgotten for a value that carries a sign.
IntOrZero_signed(x) ==
    IF Truthy(x) /\ isdigit(x) THEN int(x)
    ELSE IF Truthy(x) /\ Len(x) > 1 /\ isdigit(Tail(x)) THEN int(Tail(x)) ELSE 0

\* int(x) if x and x.isdigit() else 0
IntOrZero(x) == IF Truthy(x) /\ isdigit(x) THEN int(x) ELSE 0

\* float(x) if x else None raises ValueError on a string that is no number.
FloatRaises(x) == Truthy(x) /\ ~IsFloat(x)
FloatOrNone(x) == IF Truthy(x) THEN x ELSE None

\* Mutant: the status argument is forgotten, the dataclass default remains.
DefaultStatus_unknown(project) ==
    [kind |-> "ProjectClassificationStatus",
     project_key |-> project.key,
     project_name |-> project.name,
     last_analysis_date |-> NoDate,
     lines_of_code |-> NoInt,
     coverage |-> None,
     duplicated_lines_percent |-> None,
     bugs |-> NoInt,
     vulnerabilities |-> NoInt,
     code_smells |-> NoInt,
     has_recent_analysis |-> FALSE,
     has_metrics |-> FALSE,
     status |-> "unknown"]

\* The record of the except branch of classify_single_project and of the
\* except branch of the collection loop: dataclass defaults but the status.
DefaultStatus(project) ==
    [kind |-> "ProjectClassificationStatus",
     project_key |-> project.key,
     project_name |-> project.name,
     last_analysis_date |-> NoDate,
     lines_of_code |-> NoInt,
     coverage |-> None,
     duplicated_lines_percent |-> None,
     bugs |-> NoInt,
     vulnerabilities |-> NoInt,
     code_smells |-> NoInt,
     has_recent_analysis |-> FALSE,
     has_metrics |-> FALSE,
     status |-> "configured_inactive"]

\* if has_recent_analysis and has_metrics: 'active' else 'configured_inactive'
StatusOf(has_recent_analysis, has_metrics) ==
    IF has_recent_analysis /\ has_metrics THEN "active" ELSE "configured_inactive"

\* Does the try block of classify_single_project raise?
ClassifyRaises(project, measResp) ==
    LET fetched == get_project_measures(measResp)
        measures == fetched.measures
    IN  \/ fetched.kind = "raised"
        \/ FloatRaises(MeasureGet(measures, "coverage"))
        \/ FloatRaises(MeasureGet(measures, "duplicated_lines_density"))
        \/ RecentAnalysis(project.last_analysis_date) = "TypeError"

\* The record the try block builds when nothing raises.
ClassifyNormal(project, measResp) ==
    LET measures == get_project_measures(measResp).measures
        lines_of_code_int == IntOrZero(MeasureGet(measures, "ncloc"))
        has_recent_analysis == RecentAnalysis(project.last_analysis_date) = "True"
        has_metrics == lines_of_code_int > 0
    IN  [kind |-> "ProjectClassificationStatus",
         project_key |-> project.key,
         project_name |-> project.name,
         last_analysis_date |-> project.last_analysis_date,
         lines_of_code |-> SomeInt(lines_of_code_int),
         coverage |-> FloatOrNone(MeasureGet(measures, "coverage")),
         duplicated_lines_percent |->
             FloatOrNone(MeasureGet(measures, "duplicated_lines_density")),
         bugs |-> SomeInt(IntOrZero(MeasureGet(measures, "bugs"))),
         vulnerabilities |->
             SomeInt(IntOrZero(MeasureGet(measures, "vulnerabilities"))),
         code_smells |-> SomeInt(IntOrZero(MeasureGet(measures, "code_smells"))),
         has_recent_analysis |-> has_recent_analysis,
         has_metrics |-> has_metrics,
         status |-> StatusOf(has_recent_analysis, has_metrics)]

\* Mutant: the except branch returns None, as get_project_quality_metrics_safe does.
classify_single_project_none(project, measResp) ==
    IF ClassifyRaises(project, measResp) THEN [kind |-> "None"]
    ELSE ClassifyNormal(project, measResp)

\* classify_single_project: the record of the try block, or the default
\* record when anything in it raises.
classify_single_project(project, measResp) ==
    IF ClassifyRaises(project, measResp) THEN DefaultStatus(project)
    ELSE ClassifyNormal(project, measResp)

\* ------------------------------------------------------------ CSV export
\* x or ''
OrEmpty(x) == IF Truthy(x) THEN x ELSE <<>>

\* Mutant: only None gives 'N/A' (if rating is None).
get_rating_label_is_none(rating) ==
    IF rating = None THEN <<"N", "/", "A">>
    ELSE CASE rating = <<"1">> -> <<"A">>
           [] rating = <<"2">> -> <<"B">>
           [] rating = <<"3">> -> <<"C">>
           [] rating = <<"4">> -> <<"D">>
           [] rating = <<"5">> -> <<"E">>
           [] OTHER -> rating

\* get_rating_label: 'N/A' for a falsy rating, the letter for '1'..'5', the
\* rating itself otherwise.
get_rating_label(rating) ==
    IF ~Truthy(rating) THEN <<"N", "/", "A">>
    ELSE CASE rating = <<"1">> -> <<"A">>
           [] rating = <<"2">> -> <<"B">>
           [] rating = <<"3">> -> <<"C">>
           [] rating = <<"4">> -> <<"D">>
           [] rating = <<"5">> -> <<"E">>
           [] OTHER -> rating

DigitChar(n) ==
    CASE n = 0 -> "0" [] n = 1 -> "1" [] n = 2 -> "2" [] n = 3 -> "3"
      [] n = 4 -> "4" [] n = 5 -> "5" [] n = 6 -> "6" [] n = 7 -> "7"
      [] n = 8 -> "8" [] n = 9 -> "9"

\* str(n) of an integer.
RECURSIVE IntToStr(_)
IntToStr(n) ==
    IF n < 0 THEN <<"-">> \o IntToStr(0 - n)
    ELSE IF n < 10 THEN <<DigitChar(n)>>
    ELSE IntToStr(n \div 10) \o <<DigitChar(n % 10)>>

\* int(s) accepts an optional sign followed by digits.
IsInt(s) ==
    \/ isdigit(s)
    \/ Len(s) > 1 /\ s[1] \in {"-", "+"} /\ isdigit(Tail(s))

ParseInt(s) ==
    IF isdigit(s) THEN int(s)
    ELSE IF s[1] = "-" THEN 0 - int(Tail(s)) ELSE int(Tail(s))

\* format_technical_debt: days and hours of an 8-hour day; // and % floor.
format_technical_debt(minutes) ==
    IF ~Truthy(minutes) THEN <<"N", "/", "A">>
    ELSE IF ~IsInt(minutes) THEN <<"N", "/", "A">>
    ELSE LET total_minutes == ParseInt(minutes)
             days == total_minutes \div (8 * 60)
             hours == (total_minutes % (8 * 60)) \div 60
         IN  IF days > 0
             THEN IntToStr(days) \o <<"j", " ">> \o IntToStr(hours) \o <<"h">>
             ELSE IntToStr(hours) \o <<"h">>

\* The row export_to_csv_incremental writes for one QualityMetrics.
CsvRow(metrics) ==
    [project_name |-> metrics.project_name,
     project_key |-> metrics.project_key,
     quality_gate_status |-> metrics.quality_gate_status,
     coverage |-> OrEmpty(metrics.coverage),
     duplicated_lines_density |-> OrEmpty(metrics.duplicated_lines_density),
     maintainability |-> get_rating_label(metrics.maintainability_rating),
     reliability |-> get_rating_label(metrics.reliability_rating),
     security |-> get_rating_label(metrics.security_rating),
     vulnerabilities |-> OrEmpty(metrics.vulnerabilities),
     bugs |-> OrEmpty(metrics.bugs),
     code_smells |-> OrEmpty(metrics.code_smells),
     technical_debt |-> format_technical_debt(metrics.technical_debt),
     lines_of_code |-> OrEmpty(metrics.lines_of_code),
     last_analysis_date |-> metrics.last_analysis_date]

\* ------------------------------------------------------------- the state
VARIABLES
    op,           \* the collection loop that runs: "metrics", "classify", "export"
    listing,      \* what GET api/projects/search answers: kind and projects
    remote,       \* per project: the server's answers and the task's duration
    pc,           \* the main thread: "start", "submit", "collect", "shutdown", "done"
    submitted,    \* number of projects handed to executor.submit
    task,         \* per project: the future's state, seconds run, result
    idx,          \* position of the loop over future_to_project
    waited,       \* seconds the current future.result(timeout=60) has waited
    how,          \* per project: how the loop left its future
    quality_metrics,
    active_projects,
    configured_inactive_projects,
    csv_rows,
    processed,
    pbar,         \* the progress bar's count
    classification, \* the ProjectClassification classify_projects builds
    returned,     \* the operation's return value
    call,         \* a direct call of one method of the service: method, arguments
    outcome,      \* what the direct call gave
    args,         \* main: the command-line options
    answers,      \* main: what the server answers to the successive listings
    mpc,          \* main: its position
    fetches,      \* main: number of GET api/projects/search issued so far
    exported,     \* main: the listing (by number) each written export derives from
    message,      \* main: the closing message printed
    exit_status,  \* main: its return value
    connection,   \* what GET api/system/status answers
    counts        \* main: calls of get_config, test_connection, metrics collection

\* The state of a direct call and of main.
calls == <<call, outcome>>
mains ==
    <<args, answers, mpc, fetches, exported, message, exit_status, connection,
      counts>>

vars ==
    <<config, op, listing, remote, pc, submitted, task, idx, waited, how,
      quality_metrics, active_projects, configured_inactive_projects,
      csv_rows, processed, pbar, classification, returned, calls, mains>>

\* The state of a collection loop.
loops ==
    <<op, listing, remote, pc, submitted, task, idx, waited, how,
      quality_metrics, active_projects, configured_inactive_projects,
      csv_rows, processed, pbar, classification, returned>>

Ops == {"metrics", "classify", "export"}

projects == listing.projects
N == Len(projects)

\* A duration no task of the model reaches: the remote call never returns.
Hang == (MaxRunTicks + 1) * TickSeconds

ToStr(p) == IntToStr(p)
Project(p, date) ==
    [key |-> <<"key">> \o ToStr(p), name |-> <<"name">> \o ToStr(p),
     last_analysis_date |-> date]

Measure(metric, value) == [metric |-> metric, value |-> value]
MeasuresOk(measures) == [kind |-> "ok", measures |-> measures]
GateOk(status) == [kind |-> "ok", status |-> status]
Resp(kind) == [kind |-> kind]

NotReturned == [kind |-> "running", success |-> FALSE, payload |-> FALSE, error |-> ""]
Return(success, payload, error) ==
    [kind |-> "returned", success |-> success, payload |-> payload, error |-> error]

NoClassification ==
    [built |-> FALSE, total |-> 0, active |-> 0, configured_inactive |-> 0]

NewTask == [st |-> "new", ran |-> 0, result |-> NoneResult]

\* The task of the running loop, applied to project p.
RunTask(p) ==
    IF op = "classify"
    THEN classify_single_project(projects[p], remote[p].measures)
    ELSE get_project_quality_metrics_safe(projects[p], remote[p].gate, remote[p].measures)

\* No direct call is made and main does not run.
NoCall == [method |-> "none"]
NoResult == [kind |-> "pending"]
NoArgs ==
    [test_connection |-> FALSE, classify |-> FALSE, export_csv |-> FALSE,
     export_json |-> FALSE, export_classification_csv |-> FALSE,
     export_classification_json |-> FALSE]

NoCounts == [get_config |-> 0, test_connection |-> 0, collect |-> 0]

IdleCalls == call = NoCall /\ outcome = NoResult

IdleMain ==
    /\ args = NoArgs
    /\ answers = <<>>
    /\ mpc = "idle"
    /\ fetches = 0
    /\ exported = {}
    /\ message = "none"
    /\ exit_status = 0
    /\ connection = Resp("up")
    /\ counts = NoCounts

\* The state at the call of operation o, for the service's configuration c,
\* the listing l the server would answer and its answers r per project.
InitService(c, o, l, r) ==
    /\ config = c
    /\ IdleCalls
    /\ IdleMain
    /\ op = o
    /\ listing = l
    /\ remote = r
    /\ pc = "start"
    /\ submitted = 0
    /\ task = [p \in 1..Len(l.projects) |-> NewTask]
    /\ idx = 1
    /\ waited = 0
    /\ how = [p \in 1..Len(l.projects) |-> "pending"]
    /\ quality_metrics = <<>>
    /\ active_projects = <<>>
    /\ configured_inactive_projects = <<>>
    /\ csv_rows = <<>>
    /\ processed = 0
    /\ pbar = 0
    /\ classification = NoClassification
    /\ returned = NotReturned

InitRun(o, l, r) == InitService(Configured, o, l, r)

\* ------------------------------------------------------------ the listing
\* get_all_projects: (False, None, message) without a configuration,
\* (True, projects, None) on a 2xx answer, (False, None, message) on a
\* non-2xx status or a RequestException; a component without its 'key'
\* raises KeyError, which the method does not catch.
get_all_projects(l) ==
    IF config.kind = "None"
    THEN [kind |-> "returned", success |-> FALSE, error |-> "Configuration non trouvee"]
    ELSE CASE l.kind = "ok" -> [kind |-> "returned", success |-> TRUE, error |-> ""]
           [] l.kind = "http_error" ->
                 [kind |-> "returned", success |-> FALSE, error |-> "HTTP error"]
           [] l.kind = "network_error" ->
                 [kind |-> "returned", success |-> FALSE,
                  error |-> "Erreur lors de la recuperation des projets"]
           [] l.kind = "malformed" ->
                 [kind |-> "raised", success |-> FALSE, error |-> ""]

\* The head of the three operations, up to the creation of the executor.
\* export_to_csv_incremental receives its projects as an argument.
Raised == [kind |-> "raised", success |-> FALSE, payload |-> FALSE, error |-> ""]

\* Mutant: classify_projects tests `not success` only and goes on with an
\* empty list.
OperationHead_unguarded(o, l) ==
    LET r == get_all_projects(l)
        not_projects == ~r.success \/ Len(l.projects) = 0
    IN  CASE o = "export" -> NotReturned
          [] o = "metrics" ->
                IF r.kind = "raised" THEN Raised
                ELSE IF ~r.success \/ not_projects
                THEN Return(r.success, FALSE, r.error)
                ELSE NotReturned
          [] o = "classify" ->
                IF config.kind = "None"
                THEN Return(FALSE, FALSE, "Configuration SonarQube non trouvee")
                ELSE IF r.kind = "raised"
                THEN Return(FALSE, FALSE, "Erreur lors de la classification")
                ELSE IF ~r.success
                THEN Return(FALSE, FALSE,
                            IF r.error # "" THEN r.error
                            ELSE "Impossible de recuperer les projets")
                ELSE NotReturned

\* The head of operation o when the server answers the listing l; `not
\* projects` holds for None and for the empty list.
OperationHead(o, l) ==
    LET r == get_all_projects(l)
        not_projects == ~r.success \/ Len(l.projects) = 0
    IN  CASE o = "export" -> NotReturned
          [] o = "metrics" ->
                IF r.kind = "raised" THEN Raised
                ELSE IF ~r.success \/ not_projects
                THEN Return(r.success, FALSE, r.error)
                ELSE NotReturned
          [] o = "classify" ->
                IF config.kind = "None"
                THEN Return(FALSE, FALSE, "Configuration SonarQube non trouvee")
                ELSE IF r.kind = "raised"
                THEN Return(FALSE, FALSE, "Erreur lors de la classification")
                ELSE IF ~r.success \/ not_projects
                THEN Return(FALSE, FALSE,
                            IF r.error # "" THEN r.error
                            ELSE "Impossible de recuperer les projets")
                ELSE NotReturned

BeginResult == OperationHead(op, listing)

Begin ==
    /\ pc = "start"
    /\ returned' = BeginResult
    /\ pc' = IF BeginResult.kind # "running" THEN "done"
             ELSE IF N = 0 THEN "shutdown" ELSE "submit"
    /\ UNCHANGED <<op, listing, remote, submitted, task, idx, waited, how,
                   quality_metrics, active_projects, configured_inactive_projects,
                   csv_rows, processed, pbar, classification>>
    /\ config' = IF op = "export" THEN config ELSE get_auth_headers(config)
    /\ UNCHANGED <<calls, mains>>

\* ---------------------------------------------------- ThreadPoolExecutor
Running == {p \in 1..N : task[p].st = "running"}

\* executor.submit(task, project): the work item joins the FIFO queue.
Submit ==
    /\ pc = "submit"
    /\ submitted' = submitted + 1
    /\ task' = [task EXCEPT ![submitted + 1].st = "queued"]
    /\ pc' = IF submitted + 1 = N THEN "collect" ELSE "submit"
    /\ UNCHANGED <<op, listing, remote, idx, waited, how, quality_metrics,
                   active_projects, configured_inactive_projects, csv_rows,
                   processed, pbar, classification, returned>>
    /\ UNCHANGED <<config, calls, mains>>

\* Mutant: a task whose wait timed out no longer counts as busy.
WorkerFree_abandoned ==
    Cardinality({p \in Running : how[p] # "except"}) < max_workers

\* A worker thread may take a work item when fewer than max_workers threads
\* are busy.
WorkerFree == Cardinality(Running) < max_workers

\* A worker thread takes the oldest queued work item and runs it.
CanStart(p) ==
    /\ task[p].st = "queued"
    /\ \A q \in 1..(p - 1) : task[q].st # "queued"
    /\ WorkerFree

WorkerStart(p) ==
    /\ CanStart(p)
    /\ task' = [task EXCEPT ![p].st = "running"]
    /\ config' = get_auth_headers(config)
    /\ UNCHANGED <<op, listing, remote, pc, submitted, idx, waited, how,
                   quality_metrics, active_projects, configured_inactive_projects,
                   csv_rows, processed, pbar, classification, returned>>
    /\ UNCHANGED <<calls, mains>>

\* The task returns after the time its remote calls take; the future holds
\* its result.
CanFinish(p) == task[p].st = "running" /\ task[p].ran = remote[p].delay

\* Mutant: the worker reports its own completion on the progress bar.
WorkerFinish_reports(p) ==
    /\ CanFinish(p)
    /\ task' = [task EXCEPT ![p].st = "done", ![p].result = RunTask(p)]
    /\ pbar' = pbar + 1
    /\ UNCHANGED <<op, listing, remote, pc, submitted, idx, waited, how,
                   quality_metrics, active_projects, configured_inactive_projects,
                   csv_rows, processed, classification, returned>>
    /\ UNCHANGED <<config, calls, mains>>

\* The task of project p runs to its end in its worker thread: the future
\* gets its result, nothing else is written.
WorkerFinish(p) ==
    /\ CanFinish(p)
    /\ task' = [task EXCEPT ![p].st = "done", ![p].result = RunTask(p)]
    /\ UNCHANGED <<op, listing, remote, pc, submitted, idx, waited, how,
                   quality_metrics, active_projects, configured_inactive_projects,
                   csv_rows, processed, pbar, classification, returned>>
    /\ UNCHANGED <<config, calls, mains>>

\* ------------------------------------------------------ collection loops
\* Mutant: the list is assigned where it should be appended to.
TakeQualityMetrics_assign(result) ==
    IF result.kind # "None" THEN <<result>> ELSE quality_metrics

\* Mutant: the newest record is put in front of the list.
TakeQualityMetrics_front(result) ==
    IF result.kind # "None" THEN <<result>> \o quality_metrics ELSE quality_metrics

\* The body of the loop after future.result(timeout=60) returned `result`.
TakeQualityMetrics(result) ==
    IF result.kind # "None" THEN Append(quality_metrics, result) ELSE quality_metrics

TakeActive(result) ==
    IF result.kind # "None" /\ result.status = "active"
    THEN Append(active_projects, result) ELSE active_projects

\* Mutant: the list of inactive projects is assigned, not appended to.
TakeInactive_assign(result) ==
    IF result.kind # "None" /\ result.status # "active"
    THEN <<result>> ELSE configured_inactive_projects

TakeInactive(result) ==
    IF result.kind # "None" /\ result.status # "active"
    THEN Append(configured_inactive_projects, result)
    ELSE configured_inactive_projects

TakeRows(result) ==
    IF result.kind # "None" THEN Append(csv_rows, CsvRow(result)) ELSE csv_rows

\* Mutant: processed counts every project, as the progress bar does.
TakeProcessed_always(result) == processed + 1

TakeProcessed(result) ==
    IF result.kind # "None" THEN processed + 1 ELSE processed

\* Mutant: the except branch only reports, as the two other loops do.
ExceptInactive_dropped(project) == configured_inactive_projects

\* The except branch of the loop (the wait timed out): classify_projects
\* adds a default record, the two other loops add nothing.
ExceptInactive(project) == Append(configured_inactive_projects, DefaultStatus(project))

ExceptQualityMetrics == quality_metrics

\* Mutant: the except branch forgets the progress bar.
ExceptPbar_missing == pbar

\* pbar.update(1) of the except branch.
ExceptPbar == pbar + 1

AfterItem == IF idx = N THEN "shutdown" ELSE "collect"

MainTake ==
    /\ pc = "collect"
    /\ task[idx].st = "done"
    /\ LET result == task[idx].result
       IN  /\ quality_metrics' =
                 IF op = "metrics" THEN TakeQualityMetrics(result) ELSE quality_metrics
           /\ active_projects' =
                 IF op = "classify" THEN TakeActive(result) ELSE active_projects
           /\ configured_inactive_projects' =
                 IF op = "classify" THEN TakeInactive(result)
                 ELSE configured_inactive_projects
           /\ csv_rows' = IF op = "export" THEN TakeRows(result) ELSE csv_rows
           /\ processed' = IF op = "export" THEN TakeProcessed(result) ELSE processed
    /\ pbar' = pbar + 1
    /\ how' = [how EXCEPT ![idx] = "result"]
    /\ idx' = idx + 1
    /\ waited' = 0
    /\ pc' = AfterItem
    /\ UNCHANGED <<op, listing, remote, submitted, task, classification, returned>>
    /\ UNCHANGED <<config, calls, mains>>

\* future.result(timeout=60) raises TimeoutError once it has waited 60 s for
\* a future that is not done; the task keeps running.
MainTimeout ==
    /\ pc = "collect"
    /\ task[idx].st # "done"
    /\ waited >= timeout
    /\ configured_inactive_projects' =
          IF op = "classify" THEN ExceptInactive(projects[idx])
          ELSE configured_inactive_projects
    /\ quality_metrics' = IF op = "metrics" THEN ExceptQualityMetrics ELSE quality_metrics
    /\ pbar' = ExceptPbar
    /\ how' = [how EXCEPT ![idx] = "except"]
    /\ idx' = idx + 1
    /\ waited' = 0
    /\ pc' = AfterItem
    /\ UNCHANGED <<op, listing, remote, submitted, task, active_projects,
                   csv_rows, processed, classification, returned>>
    /\ UNCHANGED <<config, calls, mains>>

\* The ProjectClassification built after the with block.
ProjectClassification ==
    [built |-> TRUE,
     total |-> Len(projects),
     active |-> Len(active_projects),
     configured_inactive |-> Len(configured_inactive_projects)]

\* The end of the with block: ThreadPoolExecutor.__exit__ is
\* shutdown(wait=True), which returns when every submitted task has run to
\* its end; then the operation returns.
AllTasksDone == \A p \in 1..N : task[p].st = "done"

ExecutorShutdown ==
    /\ pc = "shutdown"
    /\ AllTasksDone
    /\ pc' = "done"
    /\ classification' = IF op = "classify" THEN ProjectClassification ELSE classification
    /\ returned' =
          IF op = "export"
          THEN [kind |-> "None", success |-> FALSE, payload |-> FALSE, error |-> ""]
          ELSE Return(TRUE, TRUE, "")
    /\ UNCHANGED <<op, listing, remote, submitted, task, idx, waited, how,
                   quality_metrics, active_projects, configured_inactive_projects,
                   csv_rows, processed, pbar>>
    /\ UNCHANGED <<config, calls, mains>>

\* ------------------------------------------------------------------ time
\* A step of a thread takes no time; time passes when no thread can step.
Urgent ==
    \/ pc \in {"start", "submit"}
    \/ \E p \in 1..N : CanStart(p) \/ CanFinish(p)
    \/ pc = "collect" /\ (task[idx].st = "done" \/ waited >= timeout)
    \/ pc = "shutdown" /\ AllTasksDone

NeedsTime ==
    \/ \E p \in Running : task[p].ran < remote[p].delay /\ remote[p].delay # Hang
    \/ pc = "collect" /\ task[idx].st # "done" /\ waited < timeout

Min(a, b) == IF a < b THEN a ELSE b

Tick ==
    /\ ~Urgent
    /\ NeedsTime
    /\ task' = [p \in 1..N |->
                  IF task[p].st = "running"
                  THEN [task[p] EXCEPT !.ran = Min(@ + TickSeconds, MaxRunTicks * TickSeconds)]
                  ELSE task[p]]
    /\ waited' = IF pc = "collect" THEN Min(waited + TickSeconds, timeout) ELSE waited
    /\ UNCHANGED <<op, listing, remote, pc, submitted, idx, how, quality_metrics,
                   active_projects, configured_inactive_projects, csv_rows,
                   processed, pbar, classification, returned>>
    /\ UNCHANGED <<config, calls, mains>>

Next ==
    \/ Begin
    \/ Submit
    \/ \E p \in 1..N : WorkerStart(p)
    \/ \E p \in 1..N : WorkerFinish(p)
    \/ MainTake
    \/ MainTimeout
    \/ ExecutorShutdown
    \/ Tick

\* ----------------------------------------------------- initial conditions
\* A measure the body of the answer does not hold at all.
Absent == <<"absent">>

Str1200 == <<"1", "2", "0", "0">>

BuildMeasures(ncloc, coverage) ==
    SelectSeq(<<Measure("ncloc", ncloc),
                Measure("coverage", coverage),
                Measure("sqale_rating", <<"1">>),
                Measure("sqale_index", <<"6", "0", "0">>),
                Measure("bugs", <<"5">>)>>,
              LAMBDA m : m.value # Absent)

Slow == MaxRunTicks * TickSeconds

Remote(gate, measures, delay) == [gate |-> gate, measures |-> measures, delay |-> delay]

Listing(kind, ps) == [kind |-> kind, projects |-> ps]

\* Ages, in days, of the last analysis of a listed project.
AgesDays == {5, recency_days, 90}
Suffixes == {"", "Z", "+0000", "+00:00"}

ItemDates ==
    {NoDate, DateStr("junk", 0, "")}
        \cup {DateStr("iso", 0 - d, suf) : d \in AgesDays, suf \in Suffixes}

ItemNcloc ==
    {Absent, None, <<>>, <<"0">>, Str1200, <<"-", "5">>, <<"1", ".", "5">>,
     <<"a", "b", "c">>}

ItemCoverage == {Absent, <<"8", "5", ".", "2">>, <<"a", "b", "c">>}

ItemMeasures ==
    {MeasuresOk(BuildMeasures(n, c)) : n \in ItemNcloc, c \in ItemCoverage}
        \cup {Resp("http_error"), Resp("network_error"), Resp("malformed")}

ItemGates ==
    {GateOk("OK"), GateOk("ERROR"), Resp("no_status"), Resp("http_error"),
     Resp("network_error"), Resp("malformed")}

RecentDate == DateStr("iso", 0 - 5, "")

\* One listed project, every answer of the server.
InitItem ==
    \E o \in Ops, d \in ItemDates, g \in ItemGates, m \in ItemMeasures,
       t \in {0, Slow} :
        /\ o = "classify" => g = GateOk("OK")
        /\ o # "classify" => d = RecentDate
        /\ InitRun(o, Listing("ok", <<Project(1, d)>>), <<Remote(g, m, t)>>)

\* Several listed projects: per project one of three answers and one of
\* three durations.
CollectorKinds(o) ==
    IF o = "classify"
    THEN {[date |-> RecentDate, gate |-> GateOk("OK"),
           measures |-> MeasuresOk(BuildMeasures(Str1200, Absent))],
          [date |-> DateStr("iso", 0 - 5, "+0000"), gate |-> GateOk("OK"),
           measures |-> MeasuresOk(BuildMeasures(Str1200, Absent))],
          [date |-> NoDate, gate |-> GateOk("OK"), measures |-> Resp("http_error")]}
    ELSE {[date |-> RecentDate, gate |-> GateOk("OK"),
           measures |-> MeasuresOk(BuildMeasures(Str1200, Absent))],
          [date |-> RecentDate, gate |-> Resp("malformed"),
           measures |-> MeasuresOk(BuildMeasures(Str1200, Absent))],
          [date |-> RecentDate, gate |-> Resp("http_error"),
           measures |-> Resp("http_error")]}

CollectorDelays == {0, Slow, Hang}

InitCollector ==
    \E o \in Ops, n \in 2..MaxProjects :
        \E k \in [1..n -> CollectorKinds(o)], t \in [1..n -> CollectorDelays] :
            InitRun(o,
                    Listing("ok", [p \in 1..n |-> Project(p, k[p].date)]),
                    [p \in 1..n |-> Remote(k[p].gate, k[p].measures, t[p])])

\* No project to collect: the listing fails or is empty.
InitNoProjects ==
    \E o \in Ops, kind \in {"ok", "http_error", "network_error", "malformed"},
       c \in {Configured, ConfiguredSlash} :
        /\ o = "export" => kind = "ok"
        /\ InitService(c, o, Listing(kind, <<>>), <<>>)

\* No configuration file: the server, never asked, would answer anything.
InitNoConfig ==
    \E o \in {"metrics", "classify"},
       kind \in {"ok", "http_error", "network_error", "malformed"},
       n \in 0..1 :
        /\ kind # "ok" => n = 0
        /\ InitService(NoConfig, o,
                       Listing(kind, [p \in 1..n |-> Project(p, RecentDate)]),
                       [p \in 1..n |->
                           Remote(GateOk("OK"),
                                  MeasuresOk(BuildMeasures(Str1200, Absent)), 0)])

Init == InitItem \/ InitCollector \/ InitNoProjects \/ InitNoConfig

Spec == Init /\ [][Next]_vars

\* The pool with more projects than workers: no task, the tasks of one full
\* pool or all tasks are slow or never return, the others are fast; every
\* answer of the server is good.
PoolProjects == max_workers + PoolExtra

InitPool ==
    \E o \in Ops, k \in {0, max_workers, PoolProjects}, d \in {Slow, Hang} :
        InitRun(o,
                Listing("ok", [p \in 1..PoolProjects |-> Project(p, RecentDate)]),
                [p \in 1..PoolProjects |->
                    Remote(GateOk("OK"), MeasuresOk(BuildMeasures(Str1200, Absent)),
                           IF p <= k THEN d ELSE 0)])

SpecPool == InitPool /\ [][Next]_vars

\* Threads that can step do step, and time passes.
FairSpec == Init /\ [][Next]_vars /\ WF_vars(Next)

\* ================================================================ claims
\* Does the task of project p raise inside its try block?
TaskRaises(p) ==
    IF op = "classify" THEN ClassifyRaises(projects[p], remote[p].measures)
    ELSE \/ get_project_quality_gate(remote[p].gate).kind = "raised"
         \/ get_project_measures(remote[p].measures).kind = "raised"

\* Positions of a list whose record carries the key.
PositionsOf(list, key) == {k \in 1..Len(list) : list[k].project_key = key}

Occurrences(p) ==
    Cardinality(PositionsOf(active_projects, projects[p].key))
        + Cardinality(PositionsOf(configured_inactive_projects, projects[p].key))

\* C1: a classification classify_projects returns has total = active +
\* configured_inactive = number of listed projects, and the key of every
\* listed project occurs exactly once in the two lists together.
C1_NoProjectDropped ==
    (op = "classify" /\ classification.built) =>
        /\ classification.total = N
        /\ classification.total =
              classification.active + classification.configured_inactive
        /\ classification.active = Len(active_projects)
        /\ classification.configured_inactive = Len(configured_inactive_projects)
        /\ \A p \in 1..N : Occurrences(p) = 1

C1_Witness ==
    /\ op = "classify" /\ classification.built /\ N >= 2
    /\ Len(active_projects) > 0
    /\ \E p \in 1..N : how[p] = "except"
    /\ \E p \in 1..N : how[p] = "result" /\ TaskRaises(p)

MetricsReturned ==
    op = "metrics" /\ pc = "done" /\ returned.kind = "returned"
        /\ returned.success /\ returned.payload

Succeeded == {p \in 1..N : how[p] = "result" /\ task[p].result.kind # "None"}

RecordedFailed(p) == how[p] = "except" \/ (how[p] = "result" /\ TaskRaises(p))

\* C3: whether a project is recorded as failed depends on its own task
\* only: it is failed iff its task raises or its own run takes longer than
\* the timeout.
C3_FailedIffOwnRun ==
    \A p \in 1..N :
        how[p] # "pending" =>
            (RecordedFailed(p) <=> (TaskRaises(p) \/ remote[p].delay > timeout))

\* C4: every project is submitted, and at every instant at most max_workers
\* tasks run, the tasks whose wait timed out included.
C4_AtMostWRunning ==
    /\ Cardinality(Running) <= max_workers
    /\ pc \in {"collect", "shutdown"} => submitted = N

C4_Witness ==
    /\ Cardinality(Running) = max_workers
    /\ \E p \in Running : how[p] = "except"
    /\ \E p \in 1..N : task[p].st = "queued"

\* C5: when the task of one project never returns and every other task
\* does, the collection still returns.
OneTaskHangs == Cardinality({p \in 1..N : remote[p].delay = Hang}) = 1

C5_Terminates == OneTaskHangs => <>(pc = "done")

\* The project key a result of get_project_quality_metrics_safe carries.
IdentityOf(result) == IF result.kind = "None" THEN None ELSE result.project_key

NclocOf(p) ==
    IF remote[p].measures.kind = "ok"
    THEN MeasureGet(remote[p].measures.measures, "ncloc") ELSE None

CoverageOf(p) ==
    IF remote[p].measures.kind = "ok"
    THEN MeasureGet(remote[p].measures.measures, "coverage") ELSE None

DateOf(p) == projects[p].last_analysis_date

\* C7: a project analysed inside the 30-day window, its date in any of the
\* encodings, with a positive integer ncloc (and measures that are well
\* formed) is put in active_projects with status active and both flags true.
C7_RecentWithCodeIsActive ==
    \A p \in 1..N :
        ( /\ op = "classify" /\ how[p] = "result"
          /\ DateOf(p).kind = "str" /\ DateOf(p).body = "iso"
          /\ DateOf(p).day > 0 - recency_days
          /\ remote[p].measures.kind = "ok"
          /\ isdigit(NclocOf(p)) /\ int(NclocOf(p)) > 0
          /\ ~FloatRaises(CoverageOf(p)) )
        => \E k \in PositionsOf(active_projects, projects[p].key) :
              /\ active_projects[k].status = "active"
              /\ active_projects[k].has_recent_analysis
              /\ active_projects[k].has_metrics

\* C8: a project whose last analysis is older than the 30-day window is
\* classified configured_inactive whatever its measures are.
OldAnalysis(p) ==
    DateOf(p).kind = "str" /\ DateOf(p).body = "iso" /\ DateOf(p).day < 0 - recency_days

C8_OldIsInactive ==
    \A p \in 1..N :
        (op = "classify" /\ OldAnalysis(p)) =>
            /\ task[p].st = "done" => task[p].result.status = "configured_inactive"
            /\ how[p] # "pending" =>
                  /\ PositionsOf(active_projects, projects[p].key) = {}
                  /\ \E k \in PositionsOf(configured_inactive_projects, projects[p].key) :
                        configured_inactive_projects[k].status = "configured_inactive"

C8_Witness ==
    \E p \in 1..N :
        /\ op = "classify" /\ OldAnalysis(p) /\ how[p] = "result"
        /\ DateOf(p).suffix = "" /\ NclocOf(p) = Str1200
        /\ ~TaskRaises(p)

\* C9: every record in the two lists has status active iff both flags are
\* true and configured_inactive otherwise, on the normal path, the
\* exception path and the timeout path; a project without last-analysis
\* date and without measures is in configured_inactive_projects.
StatusConsistent(rec) ==
    /\ rec.status \in {"active", "configured_inactive"}
    /\ rec.status = "active" <=> (rec.has_recent_analysis /\ rec.has_metrics)

C9_StatusIffBothFlags ==
    op = "classify" =>
        /\ \A k \in 1..Len(active_projects) :
              StatusConsistent(active_projects[k]) /\ active_projects[k].status = "active"
        /\ \A k \in 1..Len(configured_inactive_projects) :
              /\ StatusConsistent(configured_inactive_projects[k])
              /\ configured_inactive_projects[k].status = "configured_inactive"
        /\ \A p \in 1..N :
              (how[p] # "pending" /\ DateOf(p).kind = "None"
                  /\ get_project_measures(remote[p].measures).measures = <<>>)
              => PositionsOf(configured_inactive_projects, projects[p].key) # {}

C9_Witness ==
    /\ op = "classify" /\ Len(active_projects) > 0
    /\ \E p \in 1..N : how[p] = "except"
    /\ \E p \in 1..N : how[p] = "result" /\ TaskRaises(p)
    /\ \E p \in 1..N :
          /\ how[p] # "pending" /\ DateOf(p).kind = "None"
          /\ get_project_measures(remote[p].measures).measures = <<>>
          /\ PositionsOf(configured_inactive_projects, projects[p].key) # {}

\* The records of the two lists that carry the key of project p.
RecordsOf(p) ==
    {active_projects[k] : k \in PositionsOf(active_projects, projects[p].key)}
        \cup {configured_inactive_projects[k] :
                k \in PositionsOf(configured_inactive_projects, projects[p].key)}

\* C10: a project whose classification raises gets exactly one record, the
\* default configured_inactive record with its own key and name, and every
\* other project keeps the record of its own classification.
C10_FailureIsolated ==
    op = "classify" =>
        \A p \in 1..N :
            how[p] = "result" =>
                /\ Occurrences(p) = 1
                /\ RecordsOf(p) =
                      {IF TaskRaises(p) THEN DefaultStatus(projects[p])
                       ELSE ClassifyNormal(projects[p], remote[p].measures)}
                /\ TaskRaises(p) =>
                      \A rec \in RecordsOf(p) :
                          /\ rec.status = "configured_inactive"
                          /\ rec.project_key = projects[p].key
                          /\ rec.project_name = projects[p].name

C10_Witness ==
    /\ op = "classify" /\ N >= 2
    /\ \E p \in 1..N : how[p] = "result" /\ TaskRaises(p)
    /\ \E q \in 1..N :
          /\ how[q] = "result" /\ ~TaskRaises(q)
          /\ \E rec \in RecordsOf(q) : rec.status = "active"

\* ------------------------------------------------------------------ main
\* main() of src/s/many.py, step by step.  A call of the service is one step
\* here: the listing it makes is answered by the next element of `answers`,
\* and its collection loop is taken with no wait timing out, so that its
\* result holds the record of every project whose fetch returned one.
\* --configure (interactive) is not given.

\* if project_count > 50: the high-performance mode.
high_volume == 50

\* The records get_all_projects_quality_metrics collects for the listing l.
MetricsOf(l) ==
    SelectSeq([p \in 1..Len(l.projects) |->
                  get_project_quality_metrics_safe(l.projects[p], remote[p].gate,
                                                   remote[p].measures)],
              LAMBDA m : m.kind # "None")

\* service.get_all_projects_quality_metrics() when the server answers l.
CollectMetrics(l) ==
    LET head == OperationHead("metrics", l)
    IN  IF head.kind = "running"
        THEN [kind |-> "returned", success |-> TRUE, error |-> "",
              count |-> Len(MetricsOf(l))]
        ELSE [kind |-> head.kind, success |-> head.success, error |-> head.error,
              count |-> 0]

\* service.classify_projects() when the server answers l.
Classify(l) ==
    LET head == OperationHead("classify", l)
    IN  IF head.kind = "running"
        THEN [kind |-> "returned", success |-> TRUE, error |-> "",
              count |-> Len(l.projects)]
        ELSE [kind |-> head.kind, success |-> head.success, error |-> head.error,
              count |-> 0]

\* One export written from the records of the listing number n.
Export(what, n) == [what |-> what, listing |-> n]

\* main ends: the message it printed last and the value it returns.  An
\* exception that leaves main ends the process with a traceback and status 1.
Exit(msg, status) ==
    /\ mpc' = "exit"
    /\ message' = msg
    /\ exit_status' = status

Goto(position) ==
    /\ mpc' = position
    /\ UNCHANGED <<message, exit_status>>

\* What main leaves alone in every step.
MainFrame == UNCHANGED <<loops, calls, args, answers, connection>>

Counted(what) == counts' = [counts EXCEPT ![what] = @ + 1]

\* test_connection: (True, None) when the server answers 2xx with status UP,
\* (False, message) without configuration, on a non-2xx status, on another
\* status and on a RequestException.
test_connection(answer) ==
    IF config.kind = "None" THEN [success |-> FALSE, error |-> "Configuration non trouvee"]
    ELSE CASE answer.kind = "up" -> [success |-> TRUE, error |-> ""]
           [] answer.kind = "down" -> [success |-> FALSE, error |-> "SonarQube status"]
           [] answer.kind = "http_error" -> [success |-> FALSE, error |-> "HTTP error"]
           [] answer.kind = "network_error" ->
                 [success |-> FALSE, error |-> "Erreur de connexion"]

\* if not service.get_config(): ... return 1
main_check_config ==
    /\ mpc = "start"
    /\ Counted("get_config")
    /\ IF config.kind = "None" THEN Exit("no_config", 1)
       ELSE Goto(IF args.test_connection THEN "test"
                 ELSE IF args.classify THEN "classify" ELSE "listing")
    /\ MainFrame
    /\ UNCHANGED <<config, fetches, exported>>

\* if args.test_connection: the test, its report, return 0 if success else 1
main_test_connection ==
    /\ mpc = "test"
    /\ Counted("test_connection")
    /\ config' = get_auth_headers(config)
    /\ IF test_connection(connection).success THEN Exit("connection_ok", 0)
       ELSE Exit("connection_failed", 1)
    /\ MainFrame
    /\ UNCHANGED <<fetches, exported>>

\* if args.classify: classify_projects, the statistics, the exports.
main_classify ==
    /\ mpc = "classify"
    /\ fetches' = fetches + 1
    /\ LET r == Classify(answers[fetches + 1])
       IN  IF ~r.success
           THEN Exit("error", 1) /\ UNCHANGED exported
           ELSE /\ Exit("success", 0)
                /\ exported' = exported \cup
                      {Export(w, fetches + 1) :
                          w \in {w \in {"classification_csv", "classification_json"} :
                                    \/ w = "classification_csv" /\ args.export_classification_csv
                                    \/ w = "classification_json" /\ args.export_classification_json
                                    \/ ~args.export_classification_csv
                                          /\ ~args.export_classification_json}}
    /\ config' = get_auth_headers(config)
    /\ MainFrame
    /\ UNCHANGED counts

\* success, projects, error = service.get_all_projects() and the choice of
\* the mode.
main_listing ==
    /\ mpc = "listing"
    /\ fetches' = fetches + 1
    /\ LET l == answers[fetches + 1]
           r == get_all_projects(l)
       IN  IF r.kind = "raised" THEN Exit("traceback", 1)
           ELSE IF ~r.success THEN Exit("error", 1)
           ELSE IF Len(l.projects) = 0 THEN Exit("none_found", 0)
           ELSE Goto(IF Len(l.projects) > high_volume THEN "incremental" ELSE "classic")
    /\ config' = get_auth_headers(config)
    /\ MainFrame
    /\ UNCHANGED <<exported, counts>>

\* High-performance mode: the incremental CSV export of the projects listed.
main_incremental ==
    /\ mpc = "incremental"
    /\ exported' = IF args.export_csv
                   THEN exported \cup {Export("csv_incremental", fetches)}
                   ELSE exported
    /\ Goto("json")
    /\ config' = IF args.export_csv THEN get_auth_headers(config) ELSE config
    /\ MainFrame
    /\ UNCHANGED <<fetches, counts>>

\* High-performance mode: the metrics are collected again for the JSON export;
\* nothing is done when the collection fails or is empty.
main_json ==
    /\ mpc = "json"
    /\ IF args.export_json \/ (~args.export_csv /\ ~args.export_json)
       THEN /\ fetches' = fetches + 1
            /\ Counted("collect")
            /\ config' = get_auth_headers(config)
            /\ LET r == CollectMetrics(answers[fetches + 1])
               IN  IF r.kind = "raised"
                   THEN Exit("traceback", 1) /\ UNCHANGED exported
                   ELSE /\ Goto("finish")
                        /\ exported' = IF r.success /\ r.count > 0
                                       THEN exported \cup {Export("json", fetches + 1)}
                                       ELSE exported
       ELSE Goto("finish") /\ UNCHANGED <<config, fetches, exported, counts>>
    /\ MainFrame

\* Classic mode: the metrics are collected, then exported.
main_classic ==
    /\ mpc = "classic"
    /\ fetches' = fetches + 1
    /\ Counted("collect")
    /\ config' = get_auth_headers(config)
    /\ LET r == CollectMetrics(answers[fetches + 1])
       IN  IF r.kind = "raised" THEN Exit("traceback", 1) /\ UNCHANGED exported
           ELSE IF ~r.success THEN Exit("error", 1) /\ UNCHANGED exported
           ELSE IF r.count = 0 THEN Exit("no_metrics", 0) /\ UNCHANGED exported
           ELSE /\ Goto("finish")
                /\ exported' = exported \cup
                      {Export(w, fetches + 1) :
                          w \in {w \in {"csv", "json"} :
                                    \/ w = "csv" /\ args.export_csv
                                    \/ w = "json" /\ args.export_json
                                    \/ ~args.export_csv /\ ~args.export_json}}
    /\ MainFrame

\* print("Extraction terminee avec succes!"); return 0
main_finish ==
    /\ mpc = "finish"
    /\ Exit("success", 0)
    /\ MainFrame
    /\ UNCHANGED <<config, fetches, exported, counts>>

NextMain ==
    \/ main_check_config
    \/ main_test_connection
    \/ main_classify
    \/ main_listing
    \/ main_incremental
    \/ main_json
    \/ main_classic
    \/ main_finish

\* The options of a run: those of the classification mode or those of the
\* metrics modes.
Args ==
    {a \in [test_connection : BOOLEAN, classify : BOOLEAN, export_csv : BOOLEAN,
            export_json : BOOLEAN, export_classification_csv : BOOLEAN,
            export_classification_json : BOOLEAN] :
        /\ a.test_connection => a = [NoArgs EXCEPT !.test_connection = TRUE]
        /\ a.classify => ~a.export_csv /\ ~a.export_json
        /\ ~a.classify => ~a.export_classification_csv /\ ~a.export_classification_json}

\* The answers of the server to GET api/system/status.
ConnectionAnswers ==
    {Resp("up"), Resp("down"), Resp("http_error"), Resp("network_error")}

\* The answers of the server to one listing: a failure, or 0, 1, 50 or 51
\* projects.
ListingSizes == {0, 1, high_volume, high_volume + 1}

ListingAnswers ==
    {Listing("ok", [p \in 1..n |-> Project(p, RecentDate)]) : n \in ListingSizes}
        \cup {Listing(kind, <<>>) : kind \in {"http_error", "network_error", "malformed"}}

\* The server answers every project alike: both calls succeed, or the
\* quality gate's body is malformed and the fetch gives None.
InitMain ==
    \E c \in {Configured, NoConfig}, a \in Args,
       l1 \in ListingAnswers, l2 \in ListingAnswers,
       g \in {GateOk("OK"), Resp("malformed")}, s \in ConnectionAnswers :
        /\ ~a.test_connection /\ a # NoArgs => s = Resp("up")
        /\ a.test_connection =>
              l1 = Listing("ok", <<>>) /\ l2 = l1 /\ g = GateOk("OK")
        /\ connection = s
        /\ counts = NoCounts
        /\ config = c
        /\ IdleCalls
        /\ args = a
        /\ answers = <<l1, l2>>
        /\ mpc = "start"
        /\ fetches = 0
        /\ exported = {}
        /\ message = "none"
        /\ exit_status = 0
        /\ op = "metrics"
        /\ listing = Listing("ok", <<>>)
        /\ remote = [p \in 1..(high_volume + 1) |->
                        Remote(g, MeasuresOk(BuildMeasures(Str1200, Absent)), 0)]
        /\ pc = "done"
        /\ submitted = 0
        /\ task = <<>>
        /\ idx = 1
        /\ waited = 0
        /\ how = <<>>
        /\ quality_metrics = <<>>
        /\ active_projects = <<>>
        /\ configured_inactive_projects = <<>>
        /\ csv_rows = <<>>
        /\ processed = 0
        /\ pbar = 0
        /\ classification = NoClassification
        /\ returned = NotReturned

SpecMain == InitMain /\ [][NextMain]_vars

\* ---------------------------------------------------------- direct calls
\* One method of the service called by itself, as the tests of
\* src/s/prt_test.py do: `call` holds the method and its arguments (for a
\* method that asks the server, the server's answer), `outcome` what it gave.
Call(method, project, gate, measures, text) ==
    [method |-> method, project |-> project, gate |-> gate,
     measures |-> measures, text |-> text]

\* A method that makes a remote call has gone through _get_auth_headers.
Asked == config' = get_auth_headers(config)

Str(value) == [kind |-> "str", value |-> value]

Calling(method) == call.method = method /\ outcome.kind = "pending"

Gives(value) ==
    /\ outcome' = value
    /\ UNCHANGED <<loops, call, mains>>

call_get_project_measures ==
    /\ Calling("get_project_measures")
    /\ Gives(get_project_measures(call.measures))
    /\ Asked

call_get_project_quality_gate ==
    /\ Calling("get_project_quality_gate")
    /\ Gives(get_project_quality_gate(call.gate))
    /\ Asked

call_get_project_quality_metrics_safe ==
    /\ Calling("get_project_quality_metrics_safe")
    /\ Gives(get_project_quality_metrics_safe(call.project, call.gate, call.measures))
    /\ Asked

\* The answer to GET api/system/status is the variable `connection`.
call_test_connection ==
    /\ Calling("test_connection")
    /\ Gives([kind |-> "tuple", success |-> test_connection(connection).success,
              error |-> test_connection(connection).error])
    /\ Asked

call_get_rating_label ==
    /\ Calling("get_rating_label")
    /\ Gives(Str(get_rating_label(call.text)))
    /\ UNCHANGED config

call_format_technical_debt ==
    /\ Calling("format_technical_debt")
    /\ Gives(Str(format_technical_debt(call.text)))
    /\ UNCHANGED config

NextCalls ==
    \/ call_get_project_measures
    \/ call_get_project_quality_gate
    \/ call_get_project_quality_metrics_safe
    \/ call_test_connection
    \/ call_get_rating_label
    \/ call_format_technical_debt

\* Bodies of api/measures/component in which each of sqale_rating,
\* sqale_index and ncloc is absent, present without 'value', or present.
RatingMeasures ==
    {MeasuresOk(SelectSeq(<<Measure("sqale_rating", r), Measure("sqale_index", d),
                            Measure("ncloc", n)>>,
                          LAMBDA m : m.value # Absent)) :
        r \in {Absent, None, <<"1">>},
        d \in {Absent, <<"0">>, <<"6", "0", "0">>},
        n \in {Absent, <<"0">>, Str1200}}

CallMeasures == ItemMeasures \cup RatingMeasures

\* Arguments of get_rating_label.
Ratings ==
    {None, <<>>, <<"1">>, <<"2">>, <<"3">>, <<"4">>, <<"5">>, <<"0">>, <<"6">>,
     <<"A">>, <<"1", "0">>, <<"1", ".", "0">>, <<" ">>,
     <<"u", "n", "k", "n", "o", "w", "n">>}

\* Arguments of format_technical_debt: minutes, signed minutes, no number.
Debts ==
    {None, <<>>, <<"1", ".", "5">>, <<"i", "n", "v", "a", "l", "i", "d">>, <<"-">>}
        \cup {IntToStr(m) : m \in {0, 59, 60, 120, 479, 480, 600, 1440, 4805}}
        \cup {<<"-">> \o IntToStr(m) : m \in {5, 480, 600}}
        \cup {<<"+">> \o IntToStr(m) : m \in {120}}

Calls ==
    {Call("get_project_measures", Project(1, RecentDate), GateOk("OK"), m, <<>>) :
        m \in CallMeasures}
    \cup {Call("get_project_quality_gate", Project(1, RecentDate), g,
               Resp("http_error"), <<>>) : g \in ItemGates}
    \cup {Call("get_project_quality_metrics_safe", Project(1, d), g, m, <<>>) :
              d \in {NoDate, RecentDate}, g \in ItemGates, m \in CallMeasures}
    \cup {Call("get_rating_label", Project(1, NoDate), GateOk("OK"),
               Resp("http_error"), r) : r \in Ratings}
    \cup {Call("format_technical_debt", Project(1, NoDate), GateOk("OK"),
               Resp("http_error"), d) : d \in Debts}
    \cup {Call("test_connection", Project(1, NoDate), GateOk("OK"),
               Resp("http_error"), <<>>)}

InitCalls ==
    \E c \in {Configured, ConfiguredSlash, NoConfig}, k \in Calls,
       s \in ConnectionAnswers :
        /\ k.method # "test_connection" => s = Resp("up")
        /\ config = c
        /\ call = k
        /\ outcome = NoResult
        /\ args = NoArgs
        /\ answers = <<>>
        /\ mpc = "idle"
        /\ fetches = 0
        /\ exported = {}
        /\ message = "none"
        /\ exit_status = 0
        /\ connection = s
        /\ counts = NoCounts
        /\ op = "metrics"
        /\ listing = Listing("ok", <<>>)
        /\ remote = <<>>
        /\ pc = "done"
        /\ submitted = 0
        /\ task = <<>>
        /\ idx = 1
        /\ waited = 0
        /\ how = <<>>
        /\ quality_metrics = <<>>
        /\ active_projects = <<>>
        /\ configured_inactive_projects = <<>>
        /\ csv_rows = <<>>
        /\ processed = 0
        /\ pbar = 0
        /\ classification = NoClassification
        /\ returned = NotReturned

SpecCalls == InitCalls /\ [][NextCalls]_vars

\* The operation is one of the two that list the projects themselves.
ListsProjects == op \in {"metrics", "classify"}

\* C11: the top-level operations return a (success, payload, error) triple
\* for every remote outcome (no configuration, non-2xx, network error,
\* malformed body) and never raise to their caller.
C11_ReturnsTriple ==
    (ListsProjects /\ pc = "done") =>
        /\ get_all_projects(listing).kind = "returned"
        /\ returned.kind = "returned"

\* The batch cannot start: no configuration, or the listing fails.
BatchFailure == config.kind = "None" \/ listing.kind # "ok"

\* C12: when the listing fails or no configuration is present, the two
\* operations return success false with a non-empty error message, and no
\* worker task is submitted, so no per-project call is issued.
C12_BatchFailureStops ==
    (ListsProjects /\ pc = "done" /\ BatchFailure) =>
        /\ returned.kind = "returned"
        /\ ~returned.success
        /\ returned.error # ""
        /\ submitted = 0
        /\ \A p \in 1..N : task[p].st = "new"

\* The listings main has had made so far, and the failed ones among them.
ListingFailed(k) ==
    LET r == get_all_projects(answers[k]) IN r.kind = "raised" \/ ~r.success

SomeListingFailed == \E k \in 1..fetches : ListingFailed(k)

\* C13: in every mode of main a batch-level failure (no configuration, or
\* any listing made during the run failing) ends the run with an error
\* message and a non-zero exit status, never with the success message and 0.
C13_BatchFailureExitsNonZero ==
    (mpc = "exit" /\ (config.kind = "None" \/ SomeListingFailed)) =>
        /\ exit_status # 0
        /\ message \in {"no_config", "error", "traceback"}

\* C14: in one run of main the project list is fetched exactly once, in
\* every mode and for every combination of export options, and every export
\* derives from that listing.
C14_ListingFetchedOnce ==
    (mpc = "exit" /\ config.kind # "None") =>
        /\ fetches = 1
        /\ \A e \in exported : e.listing = 1

\* The measures of project p make the classifier raise by themselves.
MeasuresIllFormed(p) ==
    remote[p].measures.kind = "malformed" \/ FloatRaises(CoverageOf(p))

\* The last-analysis date of project p is written with a UTC offset 'Z' or
\* '+0000'.
OffsetDate(p) ==
    /\ DateOf(p).kind = "str" /\ DateOf(p).body = "iso"
    /\ DateOf(p).suffix \in {"Z", "+0000"}

\* C16: a last-analysis date with a trailing 'Z' and the same instant with
\* '+0000' are both parsed and give the same has_recent_analysis: true
\* exactly when the instant is later than 30 days before the run, on the
\* normal path (the record keeps the project's date).
C16_OffsetEncodingsAgree ==
    \A p \in 1..N :
        (op = "classify" /\ how[p] = "result" /\ OffsetDate(p) /\ ~MeasuresIllFormed(p))
        => \A rec \in RecordsOf(p) :
              /\ rec.has_recent_analysis = (DateOf(p).day > 0 - recency_days)
              /\ rec.last_analysis_date = DateOf(p)

\* The last-analysis date of project p cannot be parsed.
Unparseable(p) == DateOf(p).kind = "str" /\ DateOf(p).body # "iso"

\* C17: a project whose last-analysis date cannot be parsed is classified on
\* the normal path with has_recent_analysis false and status
\* configured_inactive; its record carries the metrics of its measures
\* (has_metrics reflects the lines of code) and no failure is recorded.
C17_UnparseableDateIsInactive ==
    \A p \in 1..N :
        (op = "classify" /\ how[p] = "result" /\ Unparseable(p) /\ ~MeasuresIllFormed(p))
        => /\ PositionsOf(active_projects, projects[p].key) = {}
           /\ Occurrences(p) = 1
           /\ \A rec \in RecordsOf(p) :
                 /\ ~rec.has_recent_analysis
                 /\ rec.status = "configured_inactive"
                 /\ rec.last_analysis_date = DateOf(p)
                 /\ rec.lines_of_code =
                       SomeInt(IF isdigit(NclocOf(p)) THEN int(NclocOf(p)) ELSE 0)
                 /\ rec.has_metrics = (isdigit(NclocOf(p)) /\ int(NclocOf(p)) > 0)

C17_Witness ==
    \E p \in 1..N :
        /\ op = "classify" /\ how[p] = "result" /\ Unparseable(p)
        /\ NclocOf(p) = Str1200
        /\ \E rec \in RecordsOf(p) :
              rec.has_metrics /\ rec.lines_of_code = SomeInt(1200)
                  /\ rec.status = "configured_inactive"

\* The loop over the futures has ended.
LoopEnded == pc = "shutdown" \/ (pc = "done" /\ submitted = N)

\* C19: in every collection loop completion is counted exactly once per
\* project whose future the loop has left, whether its task returned a
\* record, returned nothing, raised or timed out; when the loop ends the
\* count equals the number of input projects.
C19_CompletionCount ==
    /\ pbar = Cardinality({p \in 1..N : how[p] # "pending"})
    /\ LoopEnded => pbar = N

C19_Witness ==
    /\ LoopEnded /\ N = 3 /\ pbar = 3
    /\ \E p \in 1..N : how[p] = "except"
    /\ \E p \in 1..N : how[p] = "result" /\ task[p].result.kind = "None"
    /\ \E p \in 1..N : how[p] = "result" /\ task[p].result.kind = "QualityMetrics"

\* A direct call of `method` has returned or raised.
Called(method) == call.method = method /\ outcome.kind # "pending"

\* The call of the method fails: no configuration, or the server's answer is
\* not a 2xx answer with a complete body.
CallFails(resp) == config.kind = "None" \/ resp.kind \notin {"ok", "no_status"}

\* C15: get_project_measures returns the empty list and
\* get_project_quality_gate returns None on every failure of their call (no
\* configuration, non-2xx, network error, malformed body); neither raises.
C15_FailureValueNeverRaises ==
    /\ Called("get_project_measures") =>
          /\ outcome.kind = "list"
          /\ CallFails(call.measures) => outcome.measures = <<>>
    /\ Called("get_project_quality_gate") =>
          /\ outcome.kind \in {"QualityGate", "None"}
          /\ CallFails(call.gate) => outcome.kind = "None"

\* The measure of the metric `key` in the answer of a direct call: its value,
\* None when the configuration is missing, the call failed or the key is
\* absent from the body.
Returned(key) ==
    LET body == IF config.kind # "None" /\ call.measures.kind = "ok"
                THEN call.measures.measures ELSE <<>>
        at == {k \in 1..Len(body) : body[k].metric = key}
    IN  IF at = {} THEN None ELSE body[CHOOSE k \in at : TRUE].value

\* C18: the QualityMetrics record has quality_gate_status equal to the gate's
\* status when gate data was returned and 'NONE' otherwise, and each measure
\* field equal to the value returned for its metric key, None (never zero)
\* when the key is absent.
C18_RecordFromGateAndMeasures ==
    (Called("get_project_quality_metrics_safe") /\ outcome.kind = "QualityMetrics") =>
        /\ outcome.quality_gate_status =
              IF config.kind # "None" /\ call.gate.kind = "ok"
              THEN call.gate.status ELSE "NONE"
        /\ outcome.maintainability_rating = Returned("sqale_rating")
        /\ outcome.technical_debt = Returned("sqale_index")
        /\ outcome.lines_of_code = Returned("ncloc")
        /\ outcome.coverage = Returned("coverage")
        /\ outcome.project_key = call.project.key

\* A record built although the gate call failed and sqale_index and ncloc
\* are absent from the measures, sqale_rating being there.
C18_Witness ==
    /\ Called("get_project_quality_metrics_safe")
    /\ outcome.kind = "QualityMetrics"
    /\ config.kind # "None"
    /\ call.gate.kind = "http_error" /\ outcome.quality_gate_status = "NONE"
    /\ outcome.maintainability_rating = <<"1">>
    /\ outcome.technical_debt = None
    /\ outcome.lines_of_code = None

\* The letters of the ratings.
Letters ==
    [r \in {<<"1">>, <<"2">>, <<"3">>, <<"4">>, <<"5">>} |->
        CASE r = <<"1">> -> <<"A">> [] r = <<"2">> -> <<"B">> [] r = <<"3">> -> <<"C">>
          [] r = <<"4">> -> <<"D">> [] r = <<"5">> -> <<"E">>]

\* C20 as stated: '1'..'5' map to 'A'..'E', null maps to 'N/A', every other
\* input, the empty string included, is returned unchanged.
C20_EmptyUnchanged ==
    Called("get_rating_label") =>
        /\ outcome.kind = "str"
        /\ outcome.value =
              IF call.text = None THEN <<"N", "/", "A">>
              ELSE IF call.text \in DOMAIN Letters THEN Letters[call.text]
              ELSE call.text

\* C20, amended: '1'..'5' map to 'A'..'E', null and the empty string map to
\* 'N/A', every other input is returned unchanged; the function is total.
C20_RatingLabel ==
    Called("get_rating_label") =>
        /\ outcome.kind = "str"
        /\ outcome.value =
              IF call.text = None \/ call.text = <<>> THEN <<"N", "/", "A">>
              ELSE IF call.text \in DOMAIN Letters THEN Letters[call.text]
              ELSE call.text

C20_Witness ==
    /\ Called("get_rating_label")
    /\ call.text = <<>>
    /\ outcome.value = <<"N", "/", "A">>

\* '<days>j <hours>h' when days > 0, '<hours>h' otherwise.
Rendered(days, hours) ==
    IF days > 0 THEN IntToStr(days) \o <<"j", " ">> \o IntToStr(hours) \o <<"h">>
    ELSE IntToStr(hours) \o <<"h">>

\* A string of a non-negative integer number of minutes (digits, which a
\* '+' may precede), and that number.
IsMinutes(text) ==
    isdigit(text) \/ (Len(text) > 1 /\ text[1] = "+" /\ isdigit(Tail(text)))

Minutes(text) == IF isdigit(text) THEN int(text) ELSE int(Tail(text))

\* C21: format_technical_debt maps a string of m minutes, m a non-negative
\* integer, to days = m div 480 and hours = (m mod 480) div 60, rendered
\* '<days>j <hours>h' when days > 0 and '<hours>h' otherwise; null, empty and
\* every input that is not a non-negative integer give 'N/A'.
C21_DebtFormat ==
    Called("format_technical_debt") =>
        /\ outcome.kind = "str"
        /\ outcome.value =
              IF IsMinutes(call.text)
              THEN Rendered(Minutes(call.text) \div 480,
                            (Minutes(call.text) % 480) \div 60)
              ELSE <<"N", "/", "A">>

\* C22: once the configuration is loaded no remote call changes it: url,
\* token and organization are the same after every call as before, also for
\* a URL that ends with '/'.
C22_ConfigUnchanged == [][config' = config]_vars

\* A run of main without options and with a stored configuration.
DefaultRun == args = NoArgs /\ config.kind # "None"

\* C23: a run of main without options and with a stored configuration reads
\* the configuration once, tests the connection exactly once and only then
\* collects the metrics, at most once; a failed connection test is reported.
C23_DefaultRunTestsConnection ==
    DefaultRun =>
        /\ counts.get_config <= 1 /\ counts.test_connection <= 1 /\ counts.collect <= 1
        /\ counts.collect = 1 => counts.test_connection = 1
        /\ mpc = "exit" =>
              /\ counts.get_config = 1
              /\ counts.test_connection = 1
              /\ ~test_connection(connection).success => message = "connection_failed"

\* The ncloc measure of project p parses as an integer greater than 0.
PositiveNcloc(p) ==
    NclocOf(p) # None /\ IsInt(NclocOf(p)) /\ ParseInt(NclocOf(p)) > 0

\* The loop has filed project p.
Filed(p) == op = "classify" /\ how[p] # "pending"

\* The try block of classify_single_project built the record of project p.
BuiltNormally(p) == Filed(p) /\ how[p] = "result" /\ ~TaskRaises(p)

IsPrefix(a, b) == Len(a) <= Len(b) /\ SubSeq(b, 1, Len(a)) = a

\* C25: in a classification run a record placed in a list is never moved,
\* replaced or removed (each list only grows at its end) and no project gets
\* a second record, also when the worker of a project filed as
\* configured_inactive on timeout finishes later with an active result.
C25_NeverReclassified ==
    [][op = "classify" =>
          /\ IsPrefix(active_projects, active_projects')
          /\ IsPrefix(configured_inactive_projects, configured_inactive_projects')
          /\ \A p \in 1..N : Occurrences(p)' <= 1]_vars

C25_Witness ==
    \E p \in 1..N :
        /\ op = "classify" /\ how[p] = "except"
        /\ task[p].st = "done" /\ task[p].result.status = "active"
        /\ PositionsOf(configured_inactive_projects, projects[p].key) # {}
        /\ PositionsOf(active_projects, projects[p].key) = {}
        /\ classification.built

\* The export loop took a record from the fetch of project p.
Exported(p) == how[p] = "result" /\ task[p].result.kind # "None"

\* C26: export_to_csv_incremental writes the row of a project only after its
\* fetch returned a record, one row at most per project and none for a
\* project whose fetch returned nothing or timed out; the rows written are
\* counted by `processed`, and on return rows = processed = number of
\* successful projects while the progress count is the number of projects.
C26_RowsAreSuccesses ==
    op = "export" =>
        /\ \A p \in 1..N :
              Cardinality(PositionsOf(csv_rows, projects[p].key))
                  = IF Exported(p) THEN 1 ELSE 0
        /\ \A p \in 1..N :
              PositionsOf(csv_rows, projects[p].key) # {} =>
                  task[p].st = "done" /\ task[p].result.kind = "QualityMetrics"
        /\ processed = Len(csv_rows)
        /\ pc = "done" =>
              /\ Len(csv_rows) = Cardinality({p \in 1..N : Exported(p)})
              /\ pbar = N

C26_Witness ==
    /\ op = "export" /\ pc = "done" /\ N = 3 /\ processed = 1
    /\ \E p \in 1..N : how[p] = "except" /\ task[p].result.kind = "QualityMetrics"
    /\ \E p \in 1..N : how[p] = "result" /\ task[p].result.kind = "None"
    /\ \E p \in 1..N : Exported(p)

\* The result aggregation and the progress state.
aggregation ==
    <<quality_metrics, active_projects, configured_inactive_projects,
      csv_rows, processed, pbar>>

\* The number of records and rows collected.
Collected ==
    Len(quality_metrics) + Len(active_projects)
        + Len(configured_inactive_projects) + Len(csv_rows)

\* C27: under every interleaving of the workers the aggregation and the
\* progress state are written by one thread only, the one that runs the
\* loop: a step that writes them is no step of a worker, handles exactly one
\* future, counts it once and adds one record at most, so that no result
\* and no progress increment is lost or duplicated.
C27_WrittenByTheLoopOnly ==
    [][aggregation' # aggregation =>
          /\ task' = task
          /\ pc = "collect" /\ idx' = idx + 1
          /\ pbar' = pbar + 1
          /\ pbar' = Cardinality({p \in 1..N : how'[p] # "pending"})
          /\ Collected' \in {Collected, Collected + 1}
          /\ processed' = Len(csv_rows')]_vars

\* Three tasks of the same duration have ended together, and the loop has
\* one record of each.
C27_Witness ==
    /\ op = "metrics" /\ N = 3 /\ pc = "done"
    /\ \A p \in 1..N : remote[p].delay = 0 /\ how[p] = "result"
    /\ Len(quality_metrics) = 3 /\ pbar = 3

\* The place in the listing of the project with this key.
PlaceOf(key) == CHOOSE p \in 1..N : projects[p].key = key

\* The records of the list follow the order of their projects in the listing.
InListingOrder(list) ==
    \A j \in 1..Len(list), k \in 1..Len(list) :
        j < k => PlaceOf(list[j].project_key) < PlaceOf(list[k].project_key)

\* C28: whatever order the workers finish in, the records of the metrics
\* list, the rows of the incremental export and the records of each of the
\* two classification lists are in the order of their projects in the listing.
C28_SubmissionOrder ==
    /\ InListingOrder(quality_metrics)
    /\ InListingOrder(csv_rows)
    /\ InListingOrder(active_projects)
    /\ InListingOrder(configured_inactive_projects)

\* The task of project 3 ended at once, the task of project 2 after 90 s,
\* and the list holds the record of project 2 before that of project 3.
C28_Witness ==
    /\ op = "metrics" /\ N = 3
    /\ remote[2].delay = Slow /\ remote[3].delay = 0
    /\ how[2] = "result" /\ how[3] = "result"
    /\ Len(quality_metrics) = 2
    /\ quality_metrics[1].project_key = projects[2].key
    /\ quality_metrics[2].project_key = projects[3].key

\* A call that fails with a non-2xx status or a network error.
Fails(resp) == resp.kind \in {"http_error", "network_error"}

BothCallsFail(p) == Fails(remote[p].gate) /\ Fails(remote[p].measures)

\* A record of a project without data: no quality gate, no measure.
NoData(rec) ==
    /\ rec.kind = "QualityMetrics"
    /\ rec.quality_gate_status = "NONE"
    /\ \A f \in {"coverage", "duplicated_lines_density", "maintainability_rating",
                  "reliability_rating", "security_rating", "vulnerabilities", "bugs",
                  "code_smells", "technical_debt", "lines_of_code"} : rec[f] = None

\* The row of a project without data: empty cells, 'N/A' labels.
NoDataRow(row) ==
    /\ row.quality_gate_status = "NONE"
    /\ \A f \in {"coverage", "duplicated_lines_density", "vulnerabilities", "bugs",
                  "code_smells", "lines_of_code"} : row[f] = <<>>
    /\ \A f \in {"maintainability", "reliability", "security", "technical_debt"} :
          row[f] = <<"N", "/", "A">>

\* C29: when both remote calls of a project fail with a non-2xx status or a
\* network error, get_project_quality_metrics_safe returns a QualityMetrics
\* record with quality_gate_status 'NONE' and every measure unset; the loop
\* that takes it counts the project as a success: its record is in the list
\* of get_all_projects_quality_metrics, its row in the incremental export.
C29_FailedCallsGiveEmptyRecord ==
    \A p \in 1..N :
        (op # "classify" /\ config.kind # "None" /\ BothCallsFail(p)) =>
            /\ task[p].st = "done" =>
                  /\ NoData(task[p].result)
                  /\ task[p].result.project_key = projects[p].key
            /\ (how[p] = "result" /\ op = "metrics") =>
                  /\ Cardinality(PositionsOf(quality_metrics, projects[p].key)) = 1
                  /\ \A k \in PositionsOf(quality_metrics, projects[p].key) :
                        NoData(quality_metrics[k])
            /\ (how[p] = "result" /\ op = "export") =>
                  /\ Cardinality(PositionsOf(csv_rows, projects[p].key)) = 1
                  /\ \A k \in PositionsOf(csv_rows, projects[p].key) :
                        NoDataRow(csv_rows[k])
                  /\ processed >= 1

C29_Witness ==
    \E p \in 1..N, q \in 1..N :
        /\ op = "export" /\ pc = "done"
        /\ BothCallsFail(p) /\ how[p] = "result"
        /\ BothCallsFail(q) /\ how[q] = "except"
        /\ processed = 1 /\ NoDataRow(csv_rows[1])

\* The server lists no project.
EmptyListing == config.kind # "None" /\ listing.kind = "ok" /\ N = 0

\* C30: classify_projects returns success only for a listing that is not
\* empty: on an empty listing it returns (False, None, message), so that
\* every ProjectClassification built has total >= 1 and the percentages
\* never divide by zero; get_all_projects_quality_metrics returns success
\* with no payload on the same listing.
C30_EmptyListing ==
    /\ classification.built => classification.total >= 1
    /\ (op = "classify" /\ returned.kind = "returned" /\ returned.success) =>
          N >= 1 /\ classification.built /\ returned.payload
    /\ (op = "classify" /\ EmptyListing /\ pc = "done") =>
          /\ returned = Return(FALSE, FALSE, "Impossible de recuperer les projets")
          /\ ~classification.built
    /\ (op = "metrics" /\ EmptyListing /\ pc = "done") =>
          returned = Return(TRUE, FALSE, "")

C30_Witness ==
    /\ op = "classify" /\ EmptyListing /\ pc = "done"
    /\ returned.kind = "returned" /\ ~returned.success /\ ~returned.payload
    /\ returned.error # ""

====
